---- MODULE Spec2Model ----
(***************************************************************************)
(* Vocabulary scheduler of the English learning application: the vocabulary *)
(* collection of utils/database.py and the four operations on it            *)
(* (save_vocabulary_item, mark_word_reviewed, get_words_due_for_review,     *)
(* get_user_vocabulary), with the wall clock the handlers read; the users    *)
(* and learning_sessions collections with register_user, login_user and     *)
(* save_learning_session; and the st.session_state of one browser session   *)
(* of app.py with the handlers of utils/auth.py and of the question pages.  *)
(*                                                                         *)
(* Time is counted in ticks, TicksPerDay ticks to a day.  Every             *)
(* datetime.now() of a handler is a separate reading of the clock: the      *)
(* first reading of a call is taken at `now`, a later reading of the same   *)
(* call may be up to TicksPerDay - 1 ticks later (one call takes less than  *)
(* a day).                                                                  *)
(***************************************************************************)
EXTENDS Integers, Sequences, FiniteSets, TLC

VARIABLES
    vocabulary,  \* the collection: its documents in natural (insertion) order
    now,         \* the wall clock, in ticks
    ret,         \* what the last call returned: the operation, its user_id and
                 \* argument, the _ids of the returned documents (<<>> for
                 \* None and for the empty list), the clock at the return
    submitted,   \* history: how often each (user_id, word) was submitted
    marked,      \* history: how often each _id was successfully reviewed
    latest,      \* history: for each (user_id, word) and each content field,
                 \* the last non-empty value submitted
    fault,       \* the storage call that raised during the last call, NoFault
                 \* when the store worked
    session,     \* the calls in progress of the sessions that run
                 \* concurrently: where each is, and what it has read
    users,       \* the users collection, in natural order
    learning_sessions,  \* the learning_sessions collection, in natural order
    session_state,      \* st.session_state of one browser session
    run                 \* the run of the script in progress, when it is in a
                        \* loop of storage calls: its local variables

\* the state of the vocabulary notebook, and the state beside it
vocabVars == <<vocabulary, now, submitted, marked, latest>>
appVars == <<users, learning_sessions, session_state, run>>

vars == <<vocabulary, now, ret, submitted, marked, latest, fault, session,
          users, learning_sessions, session_state, run>>

(* ---------------------------- bounds ----------------------------------- *)
\* resolution of the clock
TicksPerDay == 2
\* two words of one owner: how far the clock runs, how often a word is
\* reviewed
MaxDays == 1
MaxReviews == 1
\* the schedule of one word: how far the clock runs, how often the word is
\* submitted and reviewed
SchedDays == 1
SchedAdd == 3
SchedReviews == 6
\* submissions of the word whose content is followed
ContentAdd == 3
\* submissions of each word of the listed notebook
ListAdd == 3
\* submissions and reviews of the item the sessions compete for
RaceAdd == 2
RaceReviews == 2
\* how far the clock runs while the reviews of two sessions interleave
RaceDays == 1
\* the notebook whose filtered words are marked together: how far the
\* clock runs, how often a word is reviewed
MarkAllDays == 1
MarkAllReviews == 2
\* the pages of one browser session: how many questions are generated, how
\* many learning sessions are saved
MaxQuestions == 2
MaxSaved == 1
\* entries of a feedback mapping, saved learning sessions
MaxFeedback == 2
ScoreSessions == 1
\* the store of two owners at one instant: how often a word is re-submitted
\* and reviewed
StoreAdd == 2
StoreReviews == 1
\* the clock that keeps advancing: until when a word is submitted and
\* reviewed, how often it is reviewed
LiveDays == 1
LiveReviews == 2

Drifts == 0..(TicksPerDay - 1)

(* ---------------------------- inputs ----------------------------------- *)
Owners == {"u1", "u2"}
\* words are byte strings: <<97>> is "a", <<98>> is "b"
Words == {<<97>>, <<97, 98>>, <<98>>}
\* what the registration and login forms are filled with
Usernames == {"n1", "n2"}
Emails == {"m1", "m2"}
Passwords == {"pw1", "pw2"}
\* the sessions (browser tabs, server threads) whose calls interleave
Sessions == {"s1", "s2"}
\* what a submission carries besides the word
Filled == [definition |-> "d1", examples |-> <<"e1">>, source_passage |-> "p1", source_question |-> "q1"]
Blank == [definition |-> "", examples |-> <<>>, source_passage |-> "", source_question |-> ""]
Contents == {Filled, Blank}
\* submissions that supply or leave empty each content field on its own,
\* with two values to tell the latest from the first
ContentValues ==
    [definition : {"", "d1", "d2"}, examples : {<<>>, <<"e1">>, <<"e2">>},
     source_passage : {"", "p1"}, source_question : {"", "q1"}]

(* ---------------------------- values ----------------------------------- *)
\* Python's None in a date field (last_review, next_review)
None == -1
\* find_one() that matches no document returns None: no document has id 0
NoDoc == 0

\* `if definition:` and the like: an empty string is falsy, and so is an
\* empty list (`if examples:`)
TruthyStr(v) == v # ""
TruthyList(v) == Len(v) > 0

timedelta(days) == days * TicksPerDay

(* ------------------------ the collection ------------------------------- *)
\* the collection is the sequence of its documents in natural (insertion)
\* order; Pos is the set of positions, Ids the set of stored _id values
Pos == 1..Len(vocabulary)
Ids == {vocabulary[i]._id : i \in Pos}

\* find_one(filter): of the positions whose documents match the filter, the
\* first in natural order, NoDoc when none matches
find_one(matching) ==
    IF matching = {} THEN NoDoc
    ELSE CHOOSE i \in matching : \A j \in matching : i <= j

\* find(filter): the documents at the matching positions, in natural order
find(matching) ==
    LET upto[n \in 0..Len(vocabulary)] ==
            IF n = 0 THEN <<>>
            ELSE IF n \in matching THEN Append(upto[n - 1], vocabulary[n])
            ELSE upto[n - 1]
    IN  upto[Len(vocabulary)]

\* the _id values of a list of documents (a result names its documents by _id)
Id(docs) == [i \in 1..Len(docs) |-> docs[i]._id]

\* replace_one({"user_id": ...}, doc, upsert=True) written for insert_one:
\* the new document takes the place of a document of the same user
insert_one_ReplacesOwner(doc) ==
    LET matching == {j \in 1..Len(vocabulary) : vocabulary[j].user_id = doc.user_id}
    IN  IF matching = {}
        THEN Append(vocabulary, [doc EXCEPT !._id = Len(vocabulary) + 1])
        ELSE LET i == CHOOSE j \in matching : \A k \in matching : j <= k
             IN  [vocabulary EXCEPT ![i] = [doc EXCEPT !._id = vocabulary[i]._id]]

\* insert_one(doc): the store generates an _id no stored document has
insert_one(doc) == Append(vocabulary, [doc EXCEPT !._id = Len(vocabulary) + 1])

\* {"$set": fields} applied to a document: the named fields are replaced,
\* the others kept
Set(doc, fields) ==
    [k \in DOMAIN doc |-> IF k \in DOMAIN fields THEN fields[k] ELSE doc[k]]

\* update_one({"_id": id}, {"$set": fields}): the first document with that
\* _id is updated, nothing happens when there is none
update_one(id, fields) ==
    LET i == find_one({j \in Pos : vocabulary[j]._id = id})
    IN  IF i = NoDoc THEN vocabulary ELSE [vocabulary EXCEPT ![i] = Set(@, fields)]

\* "$lt" written for "$lte"
Lte_Strict(field, t) == field # None /\ field < t

\* "$gte" written for "$lte"
Lte_Reversed(field, t) == field # None /\ field >= t

\* {"$lte": t} on a date field: a null never compares below a date
Lte(field, t) == field # None /\ field <= t

\* the fourth review already scheduled a month ahead
NextReviewDays_NoFortnight(current_review_count) ==
    IF current_review_count = 1 THEN 1
    ELSE IF current_review_count = 2 THEN 3
    ELSE IF current_review_count = 3 THEN 7
    ELSE 30

\* the spaced-repetition step table
NextReviewDays(current_review_count) ==
    IF current_review_count = 1 THEN 1
    ELSE IF current_review_count = 2 THEN 3
    ELSE IF current_review_count = 3 THEN 7
    ELSE IF current_review_count = 4 THEN 14
    ELSE 30

\* the filter with user_id inside the "$or", beside the date branch
DueFilter_OwnerInOr(user_id, t, doc) ==
    \/ doc.user_id = user_id /\ Lte(doc.next_review, t)
    \/ doc.next_review = None

\* the filter without its {"next_review": None} branch
DueFilter_NoNull(user_id, t, doc) ==
    /\ doc.user_id = user_id
    /\ doc.next_review # None /\ doc.next_review <= t

\* the filter without its {"next_review": {"$lte": now}} branch
DueFilter_OnlyNull(user_id, t, doc) ==
    /\ doc.user_id = user_id
    /\ doc.next_review = None

\* the filter of get_words_due_for_review
DueFilter(user_id, t, doc) ==
    /\ doc.user_id = user_id
    /\ (Lte(doc.next_review, t) \/ doc.next_review = None)

(* ------------------------------ Init ----------------------------------- *)
NoRet == [op |-> "none", user_id |-> "", arg |-> <<>>, val |-> <<>>, at |-> 0, raised |-> FALSE]

\* the store worked
NoFault == "none"

\* the except clause that lets the exception go on to the caller
Except_Raises(op, user_id, arg) ==
    [op |-> op, user_id |-> user_id, arg |-> arg, val |-> <<>>, at |-> now, raised |-> TRUE]

\* the except clause of the four operations: the exception is printed and
\* None, or the empty list, is returned
Except(op, user_id, arg) ==
    [op |-> op, user_id |-> user_id, arg |-> arg, val |-> <<>>, at |-> now, raised |-> FALSE]

\* a session that is not in a call
Idle == [pc |-> "idle"]

\* st.session_state before the first run of the script: no key is set
NoSessionState == [key \in {} |-> None]

\* no run of the script is in a loop
NoRun == [pc |-> "idle"]

Init ==
    /\ vocabulary = <<>>
    /\ now = 0
    /\ ret = NoRet
    /\ submitted = [p \in Owners \X Words |-> 0]
    /\ marked = <<>>
    /\ latest = [p \in Owners \X Words |-> Blank]
    /\ fault = NoFault
    /\ session = [s \in Sessions |-> Idle]
    /\ users = <<>>
    /\ learning_sessions = <<>>
    /\ session_state = NoSessionState
    /\ run = NoRun

(* ---------------------- save_vocabulary_item --------------------------- *)
\* the new document: t1 and t2 are the clock readings of created_at and of
\* last_add_date
NewVocabItem(user_id, word, definition, examples, source_passage, source_question, t1, t2) ==
    [_id |-> NoDoc, user_id |-> user_id, word |-> word, definition |-> definition,
     examples |-> examples, source_passage |-> source_passage,
     source_question |-> source_question,
     created_at |-> t1, last_add_date |-> t2,
     add_count |-> 1, review_count |-> 0,
     last_review |-> None, next_review |-> None]

\* a field of the "$set" that is there only when its value is truthy
Provided(truthy, field) == IF truthy THEN field ELSE <<>>

\* the update that writes the document as if it were new
UpdatedItem_Recreated(existing_item, definition, examples, source_passage, source_question, t) ==
    [add_count |-> existing_item.add_count + 1, last_add_date |-> t, created_at |-> t]
        @@ Provided(TruthyStr(definition), [definition |-> definition])
        @@ Provided(TruthyList(examples), [examples |-> examples])
        @@ Provided(TruthyStr(source_passage), [source_passage |-> source_passage])
        @@ Provided(TruthyStr(source_question), [source_question |-> source_question])

\* the update that starts the review schedule again
UpdatedItem_ResetsReview(existing_item, definition, examples, source_passage, source_question, t) ==
    [add_count |-> existing_item.add_count + 1, last_add_date |-> t,
     review_count |-> 0, last_review |-> None, next_review |-> None]
        @@ Provided(TruthyStr(definition), [definition |-> definition])
        @@ Provided(TruthyList(examples), [examples |-> examples])
        @@ Provided(TruthyStr(source_passage), [source_passage |-> source_passage])
        @@ Provided(TruthyStr(source_question), [source_question |-> source_question])

\* the update that stores every supplied value, empty or not
UpdatedItem_Overwrite(existing_item, definition, examples, source_passage, source_question, t) ==
    [add_count |-> existing_item.add_count + 1, last_add_date |-> t,
     definition |-> definition, examples |-> examples,
     source_passage |-> source_passage, source_question |-> source_question]

\* the update that stores the add_count it read
UpdatedItem_NoCount(existing_item, definition, examples, source_passage, source_question, t) ==
    [add_count |-> existing_item.add_count, last_add_date |-> t]
        @@ Provided(TruthyStr(definition), [definition |-> definition])
        @@ Provided(TruthyList(examples), [examples |-> examples])
        @@ Provided(TruthyStr(source_passage), [source_passage |-> source_passage])
        @@ Provided(TruthyStr(source_question), [source_question |-> source_question])

\* the "$set" of a re-submission: existing_item is the document read, t the
\* clock reading of last_add_date
UpdatedItem(existing_item, definition, examples, source_passage, source_question, t) ==
    [add_count |-> existing_item.add_count + 1, last_add_date |-> t]
        @@ Provided(TruthyStr(definition), [definition |-> definition])
        @@ Provided(TruthyList(examples), [examples |-> examples])
        @@ Provided(TruthyStr(source_passage), [source_passage |-> source_passage])
        @@ Provided(TruthyStr(source_question), [source_question |-> source_question])

\* the last non-empty values submitted, after one more submission
Latest(old, definition, examples, source_passage, source_question) ==
    [definition |-> IF definition = "" THEN old.definition ELSE definition,
     examples |-> IF examples = <<>> THEN old.examples ELSE examples,
     source_passage |-> IF source_passage = "" THEN old.source_passage ELSE source_passage,
     source_question |-> IF source_question = "" THEN old.source_question ELSE source_question]

\* the lookup by word alone
ExistingItem_AnyOwner(user_id, word) ==
    find_one({i \in Pos : vocabulary[i].word = word})

\* the lookup of the word of this user
ExistingItem(user_id, word) ==
    find_one({i \in Pos : vocabulary[i].user_id = user_id /\ vocabulary[i].word = word})

save_vocabulary_item(user_id, word, definition, examples, source_passage, source_question, drift) ==
    LET existing_item == ExistingItem(user_id, word)
    IN  /\ submitted' = [submitted EXCEPT ![<<user_id, word>>] = @ + 1]
        /\ latest' = [latest EXCEPT ![<<user_id, word>>] =
                          Latest(@, definition, examples, source_passage, source_question)]
        /\ fault' = NoFault
        /\ UNCHANGED session
        /\ IF existing_item # NoDoc
           THEN LET id == vocabulary[existing_item]._id
                IN  /\ drift = 0
                    /\ vocabulary' = update_one(id,
                           UpdatedItem(vocabulary[existing_item], definition, examples,
                                       source_passage, source_question, now))
                    /\ now' = now
                    /\ marked' = marked
                    /\ ret' = [op |-> "save", user_id |-> user_id, arg |-> word,
                               val |-> <<id>>, at |-> now, raised |-> FALSE]
           ELSE /\ vocabulary' = insert_one(
                       NewVocabItem(user_id, word, definition, examples,
                                    source_passage, source_question, now, now + drift))
                /\ now' = now + drift
                /\ marked' = Append(marked, 0)
                /\ ret' = [op |-> "save", user_id |-> user_id, arg |-> word,
                           val |-> <<vocabulary'[Len(vocabulary')]._id>>, at |-> now', raised |-> FALSE]

\* the call in which the storage call "at" raises: the first find_one,
\* the write, or the find_one that reads the written document back
save_vocabulary_item_except(user_id, word, definition, examples, source_passage, source_question, at) ==
    LET existing_item == ExistingItem(user_id, word)
    IN  /\ at \in {"find_one", "write", "reread"}
        /\ fault' = at
        /\ ret' = Except("save", user_id, word)
        /\ UNCHANGED <<now, session>>
        /\ IF at # "reread"
           THEN UNCHANGED <<vocabulary, submitted, marked, latest>>
           ELSE /\ submitted' = [submitted EXCEPT ![<<user_id, word>>] = @ + 1]
                /\ latest' = [latest EXCEPT ![<<user_id, word>>] =
                                  Latest(@, definition, examples, source_passage, source_question)]
                /\ IF existing_item # NoDoc
                   THEN /\ vocabulary' = update_one(vocabulary[existing_item]._id,
                               UpdatedItem(vocabulary[existing_item], definition, examples,
                                           source_passage, source_question, now))
                        /\ marked' = marked
                   ELSE /\ vocabulary' = insert_one(
                               NewVocabItem(user_id, word, definition, examples,
                                            source_passage, source_question, now, now))
                        /\ marked' = Append(marked, 0)

\* the call as a session runs it beside the calls of other sessions: the
\* find_one of lines 190-193, which leaves the document it read (none: <<>>)
\* in existing_item, ...
save_vocabulary_item_find_one(s, user_id, word, definition, examples, source_passage, source_question) ==
    LET existing_item == ExistingItem(user_id, word)
    IN  /\ session[s] = Idle
        /\ session' = [session EXCEPT ![s] =
               [pc |-> "save", user_id |-> user_id, word |-> word,
                definition |-> definition, examples |-> examples,
                source_passage |-> source_passage, source_question |-> source_question,
                existing_item |-> IF existing_item = NoDoc THEN <<>>
                                  ELSE <<vocabulary[existing_item]>>]]
        /\ UNCHANGED <<vocabulary, now, ret, submitted, marked, latest, fault>>

\* ... and, as a later step, the update_one of line 222 or the insert_one of
\* line 244, decided and computed from what find_one read
save_vocabulary_item_write(s) ==
    LET l == session[s]
    IN  /\ l.pc = "save"
        /\ session' = [session EXCEPT ![s] = Idle]
        /\ submitted' = [submitted EXCEPT ![<<l.user_id, l.word>>] = @ + 1]
        /\ latest' = [latest EXCEPT ![<<l.user_id, l.word>>] =
                          Latest(@, l.definition, l.examples, l.source_passage, l.source_question)]
        /\ fault' = NoFault
        /\ now' = now
        /\ IF l.existing_item # <<>>
           THEN LET id == l.existing_item[1]._id
                IN  /\ vocabulary' = update_one(id,
                           UpdatedItem(l.existing_item[1], l.definition, l.examples,
                                       l.source_passage, l.source_question, now))
                    /\ marked' = marked
                    /\ ret' = [op |-> "save", user_id |-> l.user_id, arg |-> l.word,
                               val |-> <<id>>, at |-> now, raised |-> FALSE]
           ELSE /\ vocabulary' = insert_one(
                       NewVocabItem(l.user_id, l.word, l.definition, l.examples,
                                    l.source_passage, l.source_question, now, now))
                /\ marked' = Append(marked, 0)
                /\ ret' = [op |-> "save", user_id |-> l.user_id, arg |-> l.word,
                           val |-> <<vocabulary'[Len(vocabulary')]._id>>, at |-> now,
                           raised |-> FALSE]

(* ----------------------- mark_word_reviewed ---------------------------- *)
\* the update whose interval is the one of the count that was read
ReviewedItem_IntervalOfRead(vocab_item, t1, t2) ==
    LET current_review_count == vocab_item.review_count + 1
    IN  [review_count |-> current_review_count,
         last_review |-> t2,
         next_review |-> t1 + timedelta(NextReviewDays(vocab_item.review_count))]

\* the update that does not store the time of the review
ReviewedItem_NoLastReview(vocab_item, t1, t2) ==
    LET current_review_count == vocab_item.review_count + 1
    IN  [review_count |-> current_review_count,
         next_review |-> t1 + timedelta(NextReviewDays(current_review_count))]

\* the update that counts the review as one more submission
ReviewedItem_Touches(vocab_item, t1, t2) ==
    LET current_review_count == vocab_item.review_count + 1
    IN  [review_count |-> current_review_count,
         last_review |-> t2,
         next_review |-> t1 + timedelta(NextReviewDays(current_review_count)),
         last_add_date |-> t2]

\* the update that makes the word due at the time of the review
ReviewedItem_DueAtOnce(vocab_item, t1, t2) ==
    LET current_review_count == vocab_item.review_count + 1
    IN  [review_count |-> current_review_count,
         last_review |-> t2,
         next_review |-> t1]

\* the update that starts the count again after the last step of the table
ReviewedItem_Wraps(vocab_item, t1, t2) ==
    LET current_review_count == IF vocab_item.review_count >= 5 THEN 1
                                ELSE vocab_item.review_count + 1
    IN  [review_count |-> current_review_count,
         last_review |-> t2,
         next_review |-> t1 + timedelta(NextReviewDays(current_review_count))]

\* the update that stores the review_count it read
ReviewedItem_StaleCount(vocab_item, t1, t2) ==
    LET current_review_count == vocab_item.review_count + 1
    IN  [review_count |-> vocab_item.review_count,
         last_review |-> t2,
         next_review |-> t1 + timedelta(NextReviewDays(current_review_count))]

\* the "$set" of the review: vocab_item is the document read, t1 the clock
\* reading next_review is computed from, t2 the reading stored as last_review
ReviewedItem(vocab_item, t1, t2) ==
    LET current_review_count == vocab_item.review_count + 1
    IN  [review_count |-> current_review_count,
         last_review |-> t2,
         next_review |-> t1 + timedelta(NextReviewDays(current_review_count))]

\* the lookup by _id alone
VocabItem_AnyOwner(user_id, word_id) ==
    find_one({i \in Pos : vocabulary[i]._id = word_id})

\* the lookup of the document of this user with this _id
VocabItem(user_id, word_id) ==
    find_one({i \in Pos : vocabulary[i]._id = word_id /\ vocabulary[i].user_id = user_id})

mark_word_reviewed(user_id, word_id, drift) ==
    LET vocab_item == VocabItem(user_id, word_id)
    IN  /\ submitted' = submitted
        /\ fault' = NoFault
        /\ UNCHANGED <<latest, session>>
        /\ IF vocab_item = NoDoc
           THEN /\ drift = 0
                /\ UNCHANGED <<vocabulary, now, marked>>
                /\ ret' = [op |-> "mark", user_id |-> user_id, arg |-> <<word_id>>,
                           val |-> <<>>, at |-> now, raised |-> FALSE]
           ELSE /\ vocabulary' = update_one(word_id,
                       ReviewedItem(vocabulary[vocab_item], now, now + drift))
                /\ now' = now + drift
                /\ marked' = [marked EXCEPT ![word_id] = @ + 1]
                /\ ret' = [op |-> "mark", user_id |-> user_id, arg |-> <<word_id>>,
                           val |-> <<word_id>>, at |-> now', raised |-> FALSE]

\* the call as a session runs it beside the calls of other sessions: the
\* find_one of lines 266-269, which returns None at once when it finds
\* nothing and else leaves the document it read in vocab_item, ...
mark_word_reviewed_find_one(s, user_id, word_id) ==
    LET vocab_item == VocabItem(user_id, word_id)
    IN  /\ session[s] = Idle
        /\ UNCHANGED <<vocabulary, now, submitted, marked, latest>>
        /\ IF vocab_item = NoDoc
           THEN /\ ret' = [op |-> "mark", user_id |-> user_id, arg |-> <<word_id>>,
                           val |-> <<>>, at |-> now, raised |-> FALSE]
                /\ fault' = NoFault
                /\ UNCHANGED session
           ELSE /\ session' = [session EXCEPT ![s] =
                       [pc |-> "mark", user_id |-> user_id, word_id |-> word_id,
                        vocab_item |-> vocabulary[vocab_item]]]
                /\ UNCHANGED <<ret, fault>>

\* ... and, as a later step, the update_one of lines 291-300, computed from
\* what find_one read
mark_word_reviewed_update_one(s) ==
    LET l == session[s]
    IN  /\ l.pc = "mark"
        /\ session' = [session EXCEPT ![s] = Idle]
        /\ vocabulary' = update_one(l.word_id, ReviewedItem(l.vocab_item, now, now))
        /\ marked' = [marked EXCEPT ![l.word_id] = @ + 1]
        /\ ret' = [op |-> "mark", user_id |-> l.user_id, arg |-> <<l.word_id>>,
                   val |-> <<l.word_id>>, at |-> now, raised |-> FALSE]
        /\ fault' = NoFault
        /\ UNCHANGED <<now, submitted, latest>>

\* the call in which the storage call "at" raises: the first find_one, or,
\* for a document that was found, the write or the find_one that reads
\* the written document back
mark_word_reviewed_except(user_id, word_id, at) ==
    LET vocab_item == VocabItem(user_id, word_id)
    IN  /\ at \in {"find_one", "write", "reread"}
        /\ at # "find_one" => vocab_item # NoDoc
        /\ fault' = at
        /\ ret' = Except("mark", user_id, <<word_id>>)
        /\ UNCHANGED <<now, submitted, latest, session>>
        /\ IF at # "reread"
           THEN UNCHANGED <<vocabulary, marked>>
           ELSE /\ vocabulary' = update_one(word_id,
                       ReviewedItem(vocabulary[vocab_item], now, now))
                /\ marked' = [marked EXCEPT ![word_id] = @ + 1]

(* -------------------- get_words_due_for_review ------------------------- *)
\* the _ids the query returns when the clock reads t
DueItems(user_id, t) == Id(find({i \in Pos : DueFilter(user_id, t, vocabulary[i])}))

get_words_due_for_review(user_id) ==
    /\ ret' = [op |-> "due", user_id |-> user_id, arg |-> <<>>,
               val |-> DueItems(user_id, now), at |-> now, raised |-> FALSE]
    /\ fault' = NoFault
    /\ UNCHANGED <<vocabulary, now, submitted, marked, latest, session>>

\* the call in which find raises
get_words_due_for_review_except(user_id) ==
    /\ fault' = "find"
    /\ ret' = Except("due", user_id, <<>>)
    /\ UNCHANGED <<vocabulary, now, submitted, marked, latest, session>>

(* ----------------------- get_user_vocabulary --------------------------- *)
\* byte-wise comparison of two strings
RECURSIVE StrLt(_, _)
StrLt(a, b) ==
    IF Len(b) = 0 THEN FALSE
    ELSE IF Len(a) = 0 THEN TRUE
    ELSE IF Head(a) # Head(b) THEN Head(a) < Head(b)
    ELSE StrLt(Tail(a), Tail(b))

\* the sort by add_count alone
SortBefore_NoWord(a, b) == a.add_count > b.add_count

\* sort([("add_count", -1), ("word", 1)]): a goes before b
SortBefore(a, b) ==
    \/ a.add_count > b.add_count
    \/ a.add_count = b.add_count /\ StrLt(a.word, b.word)

\* docs, sorted, with doc put in: after the documents that do not go after it
RECURSIVE Insert(_, _)
Insert(docs, doc) ==
    IF Len(docs) = 0 THEN <<doc>>
    ELSE IF SortBefore(doc, Head(docs)) THEN <<doc>> \o docs
    ELSE <<Head(docs)>> \o Insert(Tail(docs), doc)

RECURSIVE sort(_)
sort(docs) ==
    IF Len(docs) = 0 THEN <<>>
    ELSE Insert(sort(SubSeq(docs, 1, Len(docs) - 1)), docs[Len(docs)])

get_user_vocabulary(user_id) ==
    /\ ret' = [op |-> "all", user_id |-> user_id, arg |-> <<>>,
               val |-> Id(sort(find({i \in Pos : vocabulary[i].user_id = user_id}))), at |-> now, raised |-> FALSE]
    /\ fault' = NoFault
    /\ UNCHANGED <<vocabulary, now, submitted, marked, latest, session>>

\* the call in which find raises
get_user_vocabulary_except(user_id) ==
    /\ fault' = "find"
    /\ ret' = Except("all", user_id, <<>>)
    /\ UNCHANGED <<vocabulary, now, submitted, marked, latest, session>>

(* --------------------------- register_user ----------------------------- *)
\* the unique index on username alone
DuplicateKey_UsernameOnly(user) ==
    \E i \in 1..Len(users) : users[i].username = user.username

\* the unique indexes on username and on email: insert_one raises
\* DuplicateKeyError for a document that repeats a stored value of either
DuplicateKey(user) ==
    \E i \in 1..Len(users) :
        users[i].username = user.username \/ users[i].email = user.email

\* bcrypt.hashpw and bcrypt.checkpw: the hash is checked only by the
\* password it was made from
hashpw(password) == <<"bcrypt", password>>
checkpw(password, hashed) == hashed = <<"bcrypt", password>>

\* find_one({"$or": [{"username": username}, {"email": email}]})
UserTaken(username, email) ==
    \E i \in 1..Len(users) : users[i].username = username \/ users[i].email = email

\* the call as a session runs it: the find_one of line 49, which returns
\* None at once when it finds a user, ...
register_user_find_one(s, username, email, password) ==
    /\ session[s] = Idle
    /\ UNCHANGED <<users, learning_sessions, session_state, run>>
    /\ UNCHANGED vocabVars
    /\ IF UserTaken(username, email)
       THEN /\ ret' = [op |-> "register", user_id |-> "", arg |-> <<username, email>>,
                       val |-> <<>>, at |-> now, raised |-> FALSE]
            /\ fault' = NoFault
            /\ UNCHANGED session
       ELSE /\ session' = [session EXCEPT ![s] =
                   [pc |-> "register", username |-> username, email |-> email,
                    password |-> hashpw(password)]]
            /\ UNCHANGED <<ret, fault>>

\* ... and, as a later step, the insert_one of line 65: the
\* DuplicateKeyError of the unique indexes is caught by the except clause
register_user_insert_one(s) ==
    LET l == session[s]
        user == [_id |-> Len(users) + 1, username |-> l.username, email |-> l.email,
                 password |-> l.password, created_at |-> now, last_login |-> now]
    IN  /\ l.pc = "register"
        /\ session' = [session EXCEPT ![s] = Idle]
        /\ UNCHANGED <<learning_sessions, session_state, run>>
        /\ UNCHANGED vocabVars
        /\ IF DuplicateKey(user)
           THEN /\ users' = users
                /\ fault' = "insert_one"
                /\ ret' = Except("register", "", <<l.username, l.email>>)
           ELSE /\ users' = Append(users, user)
                /\ fault' = NoFault
                /\ ret' = [op |-> "register", user_id |-> "", arg |-> <<l.username, l.email>>,
                           val |-> <<user._id>>, at |-> now, raised |-> FALSE]

(* -------------------- save_learning_session ---------------------------- *)
\* a string is the sequence of its characters; the text "Total Score:" is
\* written as one element, Marker
Marker == "Total Score:"

DigitValue ==
    [c \in {"0", "1", "2", "3", "4", "5", "6", "7", "8", "9"} |->
        CASE c = "0" -> 0 [] c = "1" -> 1 [] c = "2" -> 2 [] c = "3" -> 3 [] c = "4" -> 4
          [] c = "5" -> 5 [] c = "6" -> 6 [] c = "7" -> 7 [] c = "8" -> 8 [] c = "9" -> 9]

\* str.split(sep): the pieces of s between the occurrences of sep
RECURSIVE split(_, _)
split(s, sep) ==
    LET at == {i \in 1..Len(s) : s[i] = sep}
    IN  IF at = {} THEN <<s>>
        ELSE LET i == CHOOSE j \in at : \A k \in at : j <= k
             IN  <<SubSeq(s, 1, i - 1)>> \o split(SubSeq(s, i + 1, Len(s)), sep)

\* str.strip(): s without its leading and trailing blanks
strip(s) ==
    LET solid == {i \in 1..Len(s) : s[i] # " "}
    IN  IF solid = {} THEN <<>>
        ELSE SubSeq(s, CHOOSE i \in solid : \A k \in solid : i <= k,
                       CHOOSE i \in solid : \A k \in solid : i >= k)

\* int(s) succeeds: s is an optional sign and one or more digits
IsInt(s) ==
    LET digits == IF s # <<>> /\ s[1] \in {"+", "-"} THEN Tail(s) ELSE s
    IN  digits # <<>> /\ \A i \in 1..Len(digits) : digits[i] \in DOMAIN DigitValue

RECURSIVE Decimal(_)
Decimal(digits) ==
    IF digits = <<>> THEN 0
    ELSE 10 * Decimal(SubSeq(digits, 1, Len(digits) - 1)) + DigitValue[digits[Len(digits)]]

\* int(s), for an s with IsInt(s)
int(s) ==
    IF s[1] = "-" THEN 0 - Decimal(Tail(s))
    ELSE IF s[1] = "+" THEN Decimal(Tail(s))
    ELSE Decimal(s)

\* int(x) of the float num / den: the quotient rounded towards zero
IntOfQuotient(num, den) ==
    IF num >= 0 THEN num \div den ELSE 0 - ((0 - num) \div den)

\* the entries of a feedback mapping: kind "data" is a dict with the key
\* "data" (total_score <<>>: the key "total_score" is missing), kind "str" a
\* string, kind "other" any other value
DataItem(total_score) == [kind |-> "data", total_score |-> total_score, text |-> <<>>]
StrItem(text) == [kind |-> "str", total_score |-> <<>>, text |-> text]
OtherItem == [kind |-> "other", total_score |-> <<>>, text |-> <<>>]

ScoreItems ==
    {DataItem(<<0>>), DataItem(<<7>>), DataItem(<<10>>), DataItem(<<>>),
     StrItem(<<Marker, " ", "8", "/", "1", "0">>),
     StrItem(<<"x", Marker, "1", "1", " ", "/", "1", "0", Marker, "2">>),
     StrItem(<<Marker, " ", "x", "/", "1", "0">>),
     StrItem(<<"x", "/", "1", "0">>),
     OtherItem}

\* the feedback mappings, as the list of their values
Feedbacks == UNION {[1..k -> ScoreItems] : k \in 0..MaxFeedback}

\* what one entry adds to total_score (lines 377-392)
ItemScore(item) ==
    IF item.kind = "data"
    THEN IF item.total_score = <<>> THEN 0 ELSE item.total_score[1]
    ELSE IF item.kind = "str" /\ \E i \in 1..Len(item.text) : item.text[i] = Marker
    THEN LET score_part == strip(split(item.text, Marker)[2])
             number == strip(split(score_part, "/")[1])
         IN  IF IsInt(number) THEN int(number) ELSE 5
    ELSE 5

RECURSIVE TotalScore(_)
TotalScore(feedback) ==
    IF feedback = <<>> THEN 0
    ELSE TotalScore(SubSeq(feedback, 1, Len(feedback) - 1)) + ItemScore(feedback[Len(feedback)])

calculate_score(feedback) ==
    IF feedback = <<>> THEN 0
    ELSE LET total_score == TotalScore(feedback)
             answered_questions == Len(feedback)
         IN  IntOfQuotient(total_score * 10, answered_questions)

\* score None: the score is calculated from the feedback.  The passage, the
\* questions and the answers are stored as given and are not followed here.
save_learning_session(user_id, feedback, score) ==
    LET session_doc == [_id |-> Len(learning_sessions) + 1, user_id |-> user_id,
                        feedback |-> feedback, created_at |-> now,
                        score |-> IF score = None THEN calculate_score(feedback) ELSE score]
    IN  /\ learning_sessions' = Append(learning_sessions, session_doc)
        /\ ret' = [op |-> "session", user_id |-> user_id,
                   arg |-> IF score = None THEN <<>> ELSE <<score>>,
                   val |-> <<session_doc._id>>, at |-> now, raised |-> FALSE]
        /\ fault' = NoFault
        /\ UNCHANGED <<users, session_state, session, run>>
        /\ UNCHANGED vocabVars

(* ------------------------------ pages ---------------------------------- *)
\* A value that may be None is the sequence of what it is: <<>> for None.
\* A dict is a function of its keys, d[k] = v is (k :> v) @@ d.

\* if key not in st.session_state: st.session_state[key] = value
SetDefault(state, key, value) ==
    IF key \in DOMAIN state THEN state ELSE (key :> value) @@ state

init_auth_state(state) ==
    SetDefault(SetDefault(SetDefault(SetDefault(state,
        "authenticated", FALSE), "user", <<>>), "show_login", TRUE), "show_register", FALSE)

\* the keys main sets when they are missing; current_passage and
\* speech_transcript are not followed
MainInit(state) ==
    SetDefault(SetDefault(SetDefault(SetDefault(init_auth_state(state),
        "questions", <<>>), "current_question_idx", 0), "answers", <<>>), "feedback", <<>>)

\* the script has run in this session
Started == "authenticated" \in DOMAIN session_state

\* the logout that keeps the user
logout_KeepsUser(state) ==
    [state EXCEPT !.authenticated = FALSE, !.show_login = TRUE, !.show_register = FALSE]

logout(state) ==
    [state EXCEPT !.authenticated = FALSE, !.user = <<>>,
                  !.show_login = TRUE, !.show_register = FALSE]

\* what a page did, for the properties
PageRet(op, arg, val) ==
    [op |-> op, user_id |-> "", arg |-> arg, val |-> val, at |-> now, raised |-> FALSE]

\* doc.pop(key, None)
pop(doc, key) == [k \in DOMAIN doc \ {key} |-> doc[k]]

\* str(idx) of an index below ten
str(idx) == CHOOSE c \in DOMAIN DigitValue : DigitValue[c] = idx

\* the feedback entries that save_session counts, in the order of the
\* questions
RECURSIVE AnsweredFeedback(_, _)
AnsweredFeedback(state, n) ==
    IF n = 0 THEN <<>>
    ELSE AnsweredFeedback(state, n - 1)
         \o (IF str(n - 1) \in DOMAIN state.feedback
             THEN <<state.feedback[str(n - 1)]>> ELSE <<>>)

\* save_session of app.py saves when there are questions and answers ...
Saves(state) == state.questions # <<>> /\ DOMAIN state.answers # {}

\* ... a learning session with the score it computes, and the collection
\* after it is learning_sessions with that session
save_session(user_id, state) ==
    LET feedback == AnsweredFeedback(state, Len(state.questions))
        session_score == IF feedback = <<>> THEN 0
                         ELSE IntOfQuotient(TotalScore(feedback) * 10, Len(feedback))
        session_doc == [_id |-> Len(learning_sessions) + 1, user_id |-> user_id,
                        feedback |-> state.feedback, created_at |-> now,
                        score |-> session_score]
    IN  IF Saves(state) THEN Append(learning_sessions, session_doc) ELSE learning_sessions

\* what the pages leave alone
PageFrame ==
    /\ UNCHANGED <<fault, session, run>>
    /\ UNCHANGED vocabVars

\* a run of the script without a click: main sets the missing keys
main ==
    /\ session_state' = MainInit(session_state)
    /\ ret' = PageRet("main", <<>>, <<>>)
    /\ UNCHANGED <<users, learning_sessions>>
    /\ PageFrame

\* the login form is submitted: login_page with login_user
login_page(username, password) ==
    LET user == find_one({i \in 1..Len(users) : users[i].username = username})
    IN  /\ Started
        /\ ~session_state.authenticated /\ session_state.show_login
        /\ PageFrame
        /\ UNCHANGED learning_sessions
        /\ IF username = "" \/ password = ""
           THEN /\ ret' = PageRet("login", <<username>>, <<>>)
                /\ UNCHANGED <<users, session_state>>
           ELSE IF user = NoDoc
           THEN /\ ret' = PageRet("login", <<username>>, <<>>)
                /\ UNCHANGED <<users, session_state>>
           ELSE IF checkpw(password, users[user].password)
           THEN /\ users' = [users EXCEPT ![user] = Set(@, [last_login |-> now])]
                /\ ret' = PageRet("login", <<username>>, <<users[user]._id>>)
                /\ session_state' = [session_state EXCEPT
                       !.user = <<pop(users[user], "password")>>,
                       !.authenticated = TRUE]
           ELSE /\ ret' = PageRet("login", <<username>>, <<>>)
                /\ UNCHANGED <<users, session_state>>

\* the link to the registration page
login_page_Register ==
    /\ Started
    /\ ~session_state.authenticated /\ session_state.show_login
    /\ session_state' = [session_state EXCEPT !.show_register = TRUE, !.show_login = FALSE]
    /\ ret' = PageRet("show_register", <<>>, <<>>)
    /\ UNCHANGED <<users, learning_sessions>>
    /\ PageFrame

\* the registration form is submitted: register_page with register_user,
\* which runs alone
register_page(username, email, password, confirm_password) ==
    LET user == [_id |-> Len(users) + 1, username |-> username, email |-> email,
                 password |-> hashpw(password), created_at |-> now, last_login |-> now]
    IN  /\ Started
        /\ ~session_state.authenticated
        /\ ~session_state.show_login /\ session_state.show_register
        /\ PageFrame
        /\ UNCHANGED learning_sessions
        /\ IF username = "" \/ email = "" \/ password = ""
           THEN /\ ret' = PageRet("register", <<username, email>>, <<>>)
                /\ UNCHANGED <<users, session_state>>
           ELSE IF password # confirm_password
           THEN /\ ret' = PageRet("register", <<username, email>>, <<>>)
                /\ UNCHANGED <<users, session_state>>
           ELSE IF UserTaken(username, email)
           THEN /\ ret' = PageRet("register", <<username, email>>, <<>>)
                /\ UNCHANGED <<users, session_state>>
           ELSE /\ users' = Append(users, user)
                /\ ret' = PageRet("register", <<username, email>>, <<user._id>>)
                /\ session_state' = [session_state EXCEPT
                       !.user = <<pop(user, "password")>>,
                       !.authenticated = TRUE]

\* the link to the login page
register_page_Login ==
    /\ Started
    /\ ~session_state.authenticated
    /\ ~session_state.show_login /\ session_state.show_register
    /\ session_state' = [session_state EXCEPT !.show_register = FALSE, !.show_login = TRUE]
    /\ ret' = PageRet("show_login", <<>>, <<>>)
    /\ UNCHANGED <<users, learning_sessions>>
    /\ PageFrame

\* the Logout button: the session is saved, then logout()
Logout(maxSaved) ==
    /\ Started
    /\ session_state.authenticated
    /\ learning_sessions' =
           IF session_state.user # <<>>
           THEN save_session(session_state.user[1]._id, session_state)
           ELSE learning_sessions
    /\ Len(learning_sessions') <= maxSaved
    /\ session_state' = logout(session_state)
    /\ ret' = PageRet("logout", <<>>, <<>>)
    /\ UNCHANGED users
    /\ PageFrame

\* the Generate Questions button: nothing happens for a blank passage or
\* when generate_questions raises; it returns at most num_questions
\* questions, here the numbers of their lines
GenerateQuestions(blank, num_questions, raises, questions) ==
    /\ Started
    /\ session_state.authenticated
    /\ session_state.questions = <<>>
    /\ num_questions \in 1..5
    /\ Len(questions) <= num_questions
    /\ IF blank \/ raises
       THEN /\ ret' = PageRet("generate", <<num_questions>>, <<>>)
            /\ UNCHANGED session_state
       ELSE /\ ret' = PageRet("generate", <<num_questions>>, <<Len(questions)>>)
            /\ session_state' = [session_state EXCEPT
                   !.questions = questions, !.current_question_idx = 0,
                   !.answers = <<>>, !.feedback = <<>>]
    /\ UNCHANGED <<users, learning_sessions>>
    /\ PageFrame

\* the Submit Answer button of the current question: the answer is kept,
\* then the feedback unless analyze_answer raises, then the session is
\* saved
SubmitAnswer(user_answer, raises, feedback, maxSaved) ==
    LET current_idx == session_state.current_question_idx
        answered == [session_state EXCEPT !.answers = (str(current_idx) :> user_answer) @@ @]
        analyzed == [answered EXCEPT !.feedback = (str(current_idx) :> feedback) @@ @]
    IN  /\ Started
        /\ session_state.authenticated
        /\ session_state.questions # <<>>
        /\ current_idx + 1 \in 1..Len(session_state.questions)
        /\ IF user_answer = ""
           THEN /\ ret' = PageRet("submit", <<current_idx>>, <<>>)
                /\ UNCHANGED <<session_state, learning_sessions>>
           ELSE IF raises
           THEN /\ ret' = PageRet("submit", <<current_idx>>, <<>>)
                /\ session_state' = answered
                /\ UNCHANGED learning_sessions
           ELSE /\ ret' = PageRet("submit", <<current_idx>>, <<current_idx>>)
                /\ session_state' = analyzed
                /\ learning_sessions' =
                       IF session_state.user # <<>>
                       THEN save_session(session_state.user[1]._id, analyzed)
                       ELSE learning_sessions
                /\ Len(learning_sessions') <= maxSaved
        /\ UNCHANGED users
        /\ PageFrame

\* the Next Question button is there when ...
HasNext_UpToLen(current_idx, questions) == current_idx < Len(questions)

HasNext(current_idx, questions) == current_idx < Len(questions) - 1

PreviousQuestion ==
    /\ Started
    /\ session_state.authenticated
    /\ session_state.questions # <<>>
    /\ session_state.current_question_idx > 0
    /\ session_state' = [session_state EXCEPT !.current_question_idx = @ - 1]
    /\ ret' = PageRet("previous", <<>>, <<>>)
    /\ UNCHANGED <<users, learning_sessions>>
    /\ PageFrame

NextQuestion ==
    /\ Started
    /\ session_state.authenticated
    /\ session_state.questions # <<>>
    /\ HasNext(session_state.current_question_idx, session_state.questions)
    /\ session_state' = [session_state EXCEPT !.current_question_idx = @ + 1]
    /\ ret' = PageRet("next", <<>>, <<>>)
    /\ UNCHANGED <<users, learning_sessions>>
    /\ PageFrame

\* the Reset and Generate New Questions button: the session is saved, then
\* the questions are cleared
Reset(maxSaved) ==
    /\ Started
    /\ session_state.authenticated
    /\ session_state.questions # <<>>
    /\ learning_sessions' =
           IF session_state.user # <<>>
           THEN save_session(session_state.user[1]._id, session_state)
           ELSE learning_sessions
    /\ Len(learning_sessions') <= maxSaved
    /\ session_state' = [session_state EXCEPT
           !.questions = <<>>, !.answers = <<>>, !.feedback = <<>>,
           !.current_question_idx = 0]
    /\ ret' = PageRet("reset", <<>>, <<>>)
    /\ UNCHANGED users
    /\ PageFrame

(* ----------------------------- clock ----------------------------------- *)
Tick(maxDays) ==
    /\ now < timedelta(maxDays)
    /\ now' = now + 1
    /\ UNCHANGED <<vocabulary, ret, submitted, marked, latest, fault, session>>
    /\ UNCHANGED appVars

(* ---------------------------- actions ---------------------------------- *)
\* the documents of (user_id, word)
Items(user_id, word) == {i \in Pos : vocabulary[i].user_id = user_id /\ vocabulary[i].word = word}

Save(pairs, contents, drifts, maxAdd, maxDays) ==
    \E user_id \in Owners, word \in Words, c \in contents, drift \in drifts :
        /\ <<user_id, word>> \in pairs
        /\ now + drift <= timedelta(maxDays)
        /\ \A i \in Items(user_id, word) : vocabulary[i].add_count < maxAdd
        /\ save_vocabulary_item(user_id, word, c.definition, c.examples,
                                c.source_passage, c.source_question, drift)
        /\ UNCHANGED appVars

Mark(owners, drifts, maxReviews, maxDays) ==
    \E user_id \in owners, word_id \in 1..(Len(vocabulary) + 1), drift \in drifts :
        /\ now + drift <= timedelta(maxDays)
        /\ \A i \in Pos : vocabulary[i]._id = word_id => vocabulary[i].review_count < maxReviews
        /\ mark_word_reviewed(user_id, word_id, drift)
        /\ UNCHANGED appVars

ListDue(owners) ==
    \E user_id \in owners : get_words_due_for_review(user_id) /\ UNCHANGED appVars

ListAll(owners) ==
    \E user_id \in owners : get_user_vocabulary(user_id) /\ UNCHANGED appVars

\* the calls during which the store fails
SaveFails(pairs, contents, maxAdd) ==
    \E user_id \in Owners, word \in Words, c \in contents, at \in {"find_one", "write", "reread"} :
        /\ <<user_id, word>> \in pairs
        /\ \A i \in Items(user_id, word) : vocabulary[i].add_count < maxAdd
        /\ save_vocabulary_item_except(user_id, word, c.definition, c.examples,
                                       c.source_passage, c.source_question, at)
        /\ UNCHANGED appVars

MarkFails(owners, maxReviews) ==
    \E user_id \in owners, word_id \in 1..(Len(vocabulary) + 1),
       at \in {"find_one", "write", "reread"} :
        /\ \A i \in Pos : vocabulary[i]._id = word_id => vocabulary[i].review_count < maxReviews
        /\ mark_word_reviewed_except(user_id, word_id, at)
        /\ UNCHANGED appVars

ListDueFails(owners) ==
    \E user_id \in owners : get_words_due_for_review_except(user_id) /\ UNCHANGED appVars

ListAllFails(owners) ==
    \E user_id \in owners : get_user_vocabulary_except(user_id) /\ UNCHANGED appVars

\* the steps of the calls of concurrent sessions
SaveFindOne(pairs, contents, maxAdd) ==
    \E s \in Sessions, user_id \in Owners, word \in Words, c \in contents :
        /\ <<user_id, word>> \in pairs
        /\ \A i \in Items(user_id, word) : vocabulary[i].add_count < maxAdd
        /\ save_vocabulary_item_find_one(s, user_id, word, c.definition, c.examples,
                                         c.source_passage, c.source_question)
        /\ UNCHANGED appVars

SaveWrite == \E s \in Sessions : save_vocabulary_item_write(s) /\ UNCHANGED appVars

MarkFindOne(owners, maxReviews) ==
    \E s \in Sessions, user_id \in owners, word_id \in 1..(Len(vocabulary) + 1) :
        /\ \A i \in Pos : vocabulary[i]._id = word_id => vocabulary[i].review_count < maxReviews
        /\ mark_word_reviewed_find_one(s, user_id, word_id)
        /\ UNCHANGED appVars

MarkUpdateOne == \E s \in Sessions : mark_word_reviewed_update_one(s) /\ UNCHANGED appVars

(* ------------- "Mark All Filtered Words as Reviewed" ------------------- *)
\* the largest value the "Maximum Reviews" input takes
MaxPossible(all_vocab_items) ==
    IF all_vocab_items = <<>> THEN 10
    ELSE CHOOSE m \in {all_vocab_items[i].review_count : i \in 1..Len(all_vocab_items)} :
             \A i \in 1..Len(all_vocab_items) : all_vocab_items[i].review_count <= m

\* the words the tab shows: the due words, or all words, with a
\* review_count from min_reviews to max_reviews
FilteredWords(user_id, min_reviews, max_reviews, show_only_due) ==
    LET all_vocab_items == sort(find({i \in Pos : vocabulary[i].user_id = user_id}))
        due_words == find({i \in Pos : DueFilter(user_id, now, vocabulary[i])})
    IN  SelectSeq(IF show_only_due THEN due_words ELSE all_vocab_items,
                  LAMBDA item : min_reviews <= item.review_count
                                /\ item.review_count <= max_reviews)

\* the loop that marks the first word again and again
LoopItem_First(filtered_words, i) == filtered_words[1]

\* for item in filtered_words: the item of the i-th turn of the loop
LoopItem(filtered_words, i) == filtered_words[i]

\* the run of the script after the click on the button, up to the loop:
\* the button is there when there are filtered words
MarkAllClick(user_id, min_reviews, max_reviews, show_only_due) ==
    LET all_vocab_items == sort(find({i \in Pos : vocabulary[i].user_id = user_id}))
        filtered_words == FilteredWords(user_id, min_reviews, max_reviews, show_only_due)
    IN  /\ run.pc = "idle"
        /\ min_reviews \in 0..10
        /\ max_reviews \in 0..MaxPossible(all_vocab_items)
        /\ filtered_words # <<>>
        /\ run' = [pc |-> "mark_all", user_id |-> user_id,
                   filtered_words |-> Id(filtered_words), i |-> 1, updated_count |-> 0,
                   started |-> now, before |-> vocabulary, marked_before |-> marked]
        /\ UNCHANGED <<users, learning_sessions, session_state>>
        /\ UNCHANGED <<ret, fault, session>>
        /\ UNCHANGED vocabVars

\* one turn of the loop: the call of mark_word_reviewed for the item; after
\* the last turn the run ends with the count of the updated items, which
\* the page shows.  The whole run takes less than a day.
MarkAllTurn(drift) ==
    /\ run.pc = "mark_all"
    /\ now + drift - run.started < TicksPerDay
    /\ mark_word_reviewed(run.user_id, LoopItem(run.filtered_words, run.i), drift)
    /\ LET updated_count == IF ret'.val # <<>> THEN run.updated_count + 1
                            ELSE run.updated_count
       IN  run' = IF run.i = Len(run.filtered_words)
                  THEN [pc |-> "idle", updated_count |-> updated_count]
                  ELSE [run EXCEPT !.i = @ + 1, !.updated_count = updated_count]
    /\ UNCHANGED <<users, learning_sessions, session_state>>

MarkAll(owners, maxReviews, maxDays) ==
    \E user_id \in owners, min_reviews \in 0..1, max_reviews \in 0..maxReviews,
       show_only_due \in BOOLEAN :
        /\ now + TicksPerDay - 1 <= timedelta(maxDays)
        /\ \A i \in Pos : vocabulary[i].review_count < maxReviews
        /\ MarkAllClick(user_id, min_reviews, max_reviews, show_only_due)

MarkAllLoop == \E drift \in Drifts : MarkAllTurn(drift)

\* two words of one owner, each submitted once; the other owner asks for
\* the due words
Next ==
    \/ Save({"u1"} \X {<<97>>, <<98>>}, {Filled}, Drifts, 1, MaxDays)
    \/ Mark({"u1"}, Drifts, MaxReviews, MaxDays)
    \/ ListDue(Owners)
    \/ ListAll({"u1"})
    \/ Tick(MaxDays)

Spec == Init /\ [][Next]_vars

\* the schedule of one word of one owner; the other owner tries to review
SchedNext ==
    \/ Save({<<"u1", <<97>>>>}, Contents, Drifts, SchedAdd, SchedDays)
    \/ Mark(Owners, Drifts, SchedReviews, SchedDays)
    \/ ListDue({"u1"})
    \/ Tick(SchedDays)

SchedSpec == Init /\ [][SchedNext]_vars

\* two owners and two words, at one instant of the clock: one owner
\* submits both words, the other one of them
StorePairs == {<<"u1", <<97>>>>, <<"u1", <<98>>>>, <<"u2", <<97>>>>}

StoreNext ==
    \/ Save(StorePairs, {Filled}, {0}, StoreAdd, 0)
    \/ Mark(Owners, {0}, StoreReviews, 0)
    \/ ListDue(Owners)
    \/ ListAll(Owners)

StoreSpec == Init /\ [][StoreNext]_vars

\* one word of one owner, submitted once, under a clock that keeps
\* advancing: the clock runs on for the interval of the last review after the
\* last day a review can happen
LiveHorizon == LiveDays + NextReviewDays(LiveReviews)

LiveTick == Tick(LiveHorizon)

LiveNext ==
    \/ Save({<<"u1", <<97>>>>}, {Filled}, Drifts, 1, LiveDays)
    \/ Mark({"u1"}, Drifts, LiveReviews, LiveDays)
    \/ ListDue({"u1"})
    \/ LiveTick

LiveSpec == Init /\ [][LiveNext]_vars /\ WF_vars(LiveTick)

\* the content of one word of one owner, at one instant of the clock
ContentNext ==
    \/ Save({<<"u1", <<97>>>>}, ContentValues, {0}, ContentAdd, 0)
    \/ ListAll({"u1"})

ContentSpec == Init /\ [][ContentNext]_vars

\* one word of each owner, at one instant of the clock, with a store that
\* fails in some calls
FailPairs == {<<"u1", <<97>>>>, <<"u2", <<97>>>>}

FailNext ==
    \/ Save(FailPairs, {Filled}, {0}, StoreAdd, 0)
    \/ Mark(Owners, {0}, StoreReviews, 0)
    \/ ListDue(Owners)
    \/ ListAll(Owners)
    \/ SaveFails(FailPairs, {Filled}, StoreAdd)
    \/ MarkFails(Owners, StoreReviews)
    \/ ListDueFails(Owners)
    \/ ListAllFails(Owners)

FailSpec == Init /\ [][FailNext]_vars

\* two sessions of one owner whose submissions and reviews of one word
\* interleave, at one instant of the clock: each call is a find_one and,
\* as a separate step, a write
RaceNext ==
    \/ SaveFindOne({<<"u1", <<97>>>>}, {Filled}, RaceAdd)
    \/ SaveWrite
    \/ MarkFindOne({"u1"}, RaceReviews)
    \/ MarkUpdateOne

RaceSpec == Init /\ [][RaceNext]_vars

\* two sessions of one owner whose reviews of one item interleave while
\* the clock moves: the two clock readings of a review are taken together,
\* at its write
RaceClockNext ==
    \/ Save({<<"u1", <<97>>>>}, {Filled}, {0}, 1, RaceDays)
    \/ MarkFindOne({"u1"}, RaceReviews)
    \/ MarkUpdateOne
    \/ Tick(RaceDays)

RaceClockSpec == Init /\ [][RaceClockNext]_vars

\* the registrations of two sessions, each a find_one and, as a separate
\* step, an insert_one
RegisterFindOne ==
    \E s \in Sessions, username \in Usernames, email \in Emails :
        register_user_find_one(s, username, email, "pw1")

RegisterInsertOne == \E s \in Sessions : register_user_insert_one(s)

RegNext == RegisterFindOne \/ RegisterInsertOne

RegSpec == Init /\ [][RegNext]_vars

\* learning sessions saved with a score, or with None for it
SaveSession(owners, scores) ==
    \E user_id \in owners, feedback \in Feedbacks, score \in scores :
        /\ Len(learning_sessions) < ScoreSessions
        /\ save_learning_session(user_id, feedback, score)

ScoreNext == SaveSession({"u1"}, {None, 50})

ScoreSpec == Init /\ [][ScoreNext]_vars

\* the notebook of an owner of two words, and a word of another owner: the
\* words are submitted one by one between the runs that mark the filtered
\* words together
MarkAllPairs == {<<"u1", <<97>>>>, <<"u1", <<98>>>>, <<"u2", <<97>>>>}

MarkAllNext ==
    \/ run.pc = "idle" /\ Save(MarkAllPairs, {Filled}, {0}, 1, MarkAllDays)
    \/ run.pc = "idle" /\ Tick(MarkAllDays)
    \/ MarkAll({"u1"}, MarkAllReviews, MarkAllDays)
    \/ MarkAllLoop

MarkAllSpec == Init /\ [][MarkAllNext]_vars

\* one browser session on the pages: two people register, log in and out,
\* and practise on generated questions
LoginSubmit ==
    \E username \in Usernames \cup {""}, password \in Passwords \cup {""} :
        login_page(username, password)

RegisterSubmit ==
    \E username \in Usernames \cup {""}, email \in Emails \cup {""},
       password \in {"pw1", ""}, confirm_password \in Passwords :
        register_page(username, email, password, confirm_password)

Generate ==
    \E blank \in BOOLEAN, num_questions \in 1..MaxQuestions, raises \in BOOLEAN,
       n \in 0..MaxQuestions :
        GenerateQuestions(blank, num_questions, raises, [k \in 1..n |-> k])

Submit ==
    \E user_answer \in {"", "a1"}, raises \in BOOLEAN,
       feedback \in {DataItem(<<7>>), DataItem(<<10>>)} :
        SubmitAnswer(user_answer, raises, feedback, MaxSaved)

PageNext ==
    \/ main
    \/ LoginSubmit
    \/ login_page_Register
    \/ RegisterSubmit
    \/ register_page_Login
    \/ Logout(MaxSaved)
    \/ Generate
    \/ Submit
    \/ PreviousQuestion
    \/ NextQuestion
    \/ Reset(MaxSaved)

PageSpec == Init /\ [][PageNext]_vars

\* the notebook of an owner of three words, one of them a prefix of
\* another, and a word of the other owner, at one instant of the clock
ListPairs == ({"u1"} \X Words) \cup {<<"u2", <<97>>>>}

ListNext ==
    \/ Save(ListPairs, {Filled}, {0}, ListAdd, 0)
    \/ ListAll(Owners)

ListSpec == Init /\ [][ListNext]_vars

(* ============================ properties =============================== *)
\* the values of a list
Range(seq) == {seq[i] : i \in 1..Len(seq)}

\* the stored documents, and the stored documents of one user
Docs == Range(vocabulary)
DocsOf(user_id) == {doc \in Docs : doc.user_id = user_id}

\* the document with this _id in a collection
DocIn(coll, id) == coll[CHOOSE i \in 1..Len(coll) : coll[i]._id = id]

\* this step is a successful mark_word_reviewed of the document id
Reviews(id) == id \in 1..Len(marked) /\ marked'[id] = marked[id] + 1

\* this step is a save_vocabulary_item of (user_id, word)
Submits(user_id, word) == submitted'[<<user_id, word>>] = submitted[<<user_id, word>>] + 1

\* C1: after any sequence of save_vocabulary_item and mark_word_reviewed
\* calls there is exactly one document for every (owner, word) pair that was
\* submitted at least once and none for a pair that never was.
C1_OneItemPerPair ==
    \A user_id \in Owners, word \in Words :
        Cardinality(Items(user_id, word)) =
            IF submitted[<<user_id, word>>] > 0 THEN 1 ELSE 0

\* both owners submitted the same word, one of them twice, and a document
\* was reviewed
C1_Witness ==
    /\ submitted[<<"u1", <<97>>>>] = 2
    /\ submitted[<<"u2", <<97>>>>] = 1
    /\ submitted[<<"u1", <<98>>>>] = 1
    /\ \E id \in 1..Len(marked) : marked[id] > 0

\* C2: get_words_due_for_review(owner) returns exactly the documents of that
\* owner whose next_review is null or not later than the clock at the time of
\* the query, each of them once.
C2_DueExact ==
    ret.op = "due" =>
        /\ Range(ret.val) =
               {doc._id : doc \in {d \in DocsOf(ret.user_id) :
                                      d.next_review = None \/ d.next_review <= ret.at}}
        /\ Cardinality(Range(ret.val)) = Len(ret.val)

\* the query returned one of two documents of the owner, the one that falls
\* due at this very tick, and left out the one that is due later
C2_Witness ==
    /\ ret.op = "due"
    /\ Len(ret.val) = 1
    /\ Cardinality(DocsOf(ret.user_id)) = 2
    /\ DocIn(vocabulary, ret.val[1]).next_review = ret.at

\* C3: a document that was never reviewed is due for its owner in every
\* state, whatever the clock reads and however often its word was
\* re-submitted, and every get_words_due_for_review of its owner returns it.
C3_NeverReviewedDue ==
    \A id \in 1..Len(marked) :
        marked[id] = 0 =>
            /\ \E doc \in Docs : doc._id = id
            /\ \A doc \in Docs : doc._id = id =>
                   /\ id \in Range(DueItems(doc.user_id, now))
                   /\ (ret.op = "due" /\ ret.user_id = doc.user_id) => id \in Range(ret.val)

\* a re-submitted, never reviewed document returned by a query after the
\* clock has advanced
C3_Witness ==
    /\ ret.op = "due"
    /\ now > 0
    /\ ret.at = now
    /\ \E doc \in Docs :
          /\ doc.add_count >= 2
          /\ doc.review_count = 0
          /\ marked[doc._id] = 0
          /\ doc._id \in Range(ret.val)

\* the step table of the specification, in days
TableDays(count) ==
    CASE count = 1 -> 1
      [] count = 2 -> 3
      [] count = 3 -> 7
      [] count = 4 -> 14
      [] count >= 5 -> 30

\* C4: a successful mark_word_reviewed sets next_review to the clock reading
\* of the call plus the interval of the review count after the increment:
\* 1, 3, 7, 14 days for the counts 1 to 4, and 30 days for every count >= 5.
C4_StepTable ==
    [][\A id \in 1..Len(marked) :
          Reviews(id) =>
              DocIn(vocabulary', id).next_review =
                  now + TicksPerDay * TableDays(DocIn(vocabulary', id).review_count)]_vars

\* the sixth review of a word is scheduled 30 days ahead
C4_Witness ==
    /\ ret.op = "mark"
    /\ Len(ret.val) = 1
    /\ \E doc \in Docs :
          /\ doc._id = ret.val[1]
          /\ doc.review_count = 6
          /\ doc.next_review >= now + TicksPerDay * 29

\* C5: every successful mark_word_reviewed increases the stored review_count
\* by exactly one and sets last_review to the clock reading of the call, so
\* after k successful calls on a document review_count is k.
C5_ReviewCount ==
    /\ [](\A doc \in Docs : doc.review_count = marked[doc._id])
    /\ [][\A id \in 1..Len(marked) :
             Reviews(id) =>
                 /\ DocIn(vocabulary', id).review_count = DocIn(vocabulary, id).review_count + 1
                 /\ DocIn(vocabulary', id).last_review >= now
                 /\ DocIn(vocabulary', id).last_review <= now']_vars

\* a word reviewed three times, the last time after the clock has advanced
C5_Witness ==
    /\ ret.op = "mark"
    /\ Len(ret.val) = 1
    /\ marked[ret.val[1]] = 3
    /\ DocIn(vocabulary, ret.val[1]).review_count = 3
    /\ DocIn(vocabulary, ret.val[1]).last_review = now
    /\ now > 0

\* C6: while the clock is before the next_review that mark_word_reviewed set,
\* the document is not due: no get_words_due_for_review of that time returns
\* it.
C6_NotDueBefore ==
    \A doc \in Docs :
        doc.review_count > 0 =>
            /\ now < doc.next_review => doc._id \notin Range(DueItems(doc.user_id, now))
            /\ (ret.op = "due" /\ ret.at < doc.next_review) => doc._id \notin Range(ret.val)

\* the owner of a reviewed word asks for the due words one tick before the
\* word falls due and gets nothing
C6_Witness ==
    /\ ret.op = "due"
    /\ ret.user_id = "u1"
    /\ ret.at = now
    /\ ret.val = <<>>
    /\ \E doc \in Docs : doc.review_count > 0 /\ doc.next_review = now + 1

\* C7: a reviewed document is due again as soon as the clock has reached its
\* next_review, and, the clock advancing for ever, every reviewed document is
\* eventually due again.
C7_DueAgain ==
    /\ [](\A doc \in Docs :
             (doc.review_count > 0 /\ now >= doc.next_review) =>
                 /\ doc._id \in Range(DueItems(doc.user_id, now))
                 /\ (ret.op = "due" /\ ret.at = now /\ ret.user_id = doc.user_id)
                        => doc._id \in Range(ret.val))
    /\ []((\E doc \in Docs : doc.review_count > 0)
              => <>(\E doc \in Docs : /\ doc.review_count > 0
                                      /\ now >= doc.next_review
                                      /\ doc._id \in Range(DueItems(doc.user_id, now))))

\* a word reviewed twice is returned by a query after its next_review
C7_Witness ==
    /\ ret.op = "due"
    /\ ret.at = now
    /\ \E doc \in Docs :
          /\ doc.review_count = 2
          /\ now > doc.next_review
          /\ doc._id \in Range(ret.val)

\* C8: mark_word_reviewed with an _id that no document has, or that a
\* document of another user has, returns None and changes no document.
C8_NotFoundNoMutation ==
    [][\A user_id \in Owners, word_id \in 1..(Len(vocabulary) + 1) :
          (/\ ret'.op = "mark"
           /\ ret'.user_id = user_id
           /\ ret'.arg = <<word_id>>
           /\ ~(\E doc \in DocsOf(user_id) : doc._id = word_id))
          => (ret'.val = <<>> /\ vocabulary' = vocabulary)]_vars

\* a user tried to review a document of the other user
C8_Witness ==
    /\ ret.op = "mark"
    /\ ret.val = <<>>
    /\ \E doc \in Docs : <<doc._id>> = ret.arg /\ doc.user_id # ret.user_id

\* C9: save_vocabulary_item of a pair without a document inserts exactly one
\* document with add_count 1, review_count 0, no last_review, no next_review
\* and created_at = last_add_date = the time of the call, and a following
\* get_user_vocabulary returns one document of that word, with add_count 1.
C9_FreshItem ==
    [][\A user_id \in Owners, word \in Words :
          /\ (Submits(user_id, word) /\ Items(user_id, word) = {}) =>
                /\ Len(vocabulary') = Len(vocabulary) + 1
                /\ SubSeq(vocabulary', 1, Len(vocabulary)) = vocabulary
                /\ LET doc == vocabulary'[Len(vocabulary')]
                   IN  /\ doc.user_id = user_id /\ doc.word = word
                       /\ doc.add_count = 1 /\ doc.review_count = 0
                       /\ doc.last_review = None /\ doc.next_review = None
                       /\ doc.created_at = doc.last_add_date
                       /\ doc.created_at >= now /\ doc.created_at <= now'
          /\ (/\ ret.op = "save" /\ ret.user_id = user_id /\ ret.arg = word
              /\ submitted[<<user_id, word>>] = 1
              /\ ret'.op = "all" /\ ret'.user_id = user_id) =>
                \E i \in 1..Len(ret'.val) :
                    /\ DocIn(vocabulary, ret'.val[i]).word = word
                    /\ DocIn(vocabulary, ret'.val[i]).add_count = 1
                    /\ \A j \in 1..Len(ret'.val) :
                           DocIn(vocabulary, ret'.val[j]).word = word => j = i]_vars

\* C10: save_vocabulary_item of a pair that has a document increases its
\* add_count by exactly one and sets last_add_date to the time of the call
\* without inserting a document, so after n submissions of a pair add_count
\* is n.
C10_AddCount ==
    /\ [](\A user_id \in Owners, word \in Words :
             \A i \in Items(user_id, word) :
                 vocabulary[i].add_count = submitted[<<user_id, word>>])
    /\ [][\A user_id \in Owners, word \in Words :
             (Submits(user_id, word) /\ Items(user_id, word) # {}) =>
                 /\ Len(vocabulary') = Len(vocabulary)
                 /\ \A i \in Items(user_id, word) :
                        /\ vocabulary'[i].add_count = vocabulary[i].add_count + 1
                        /\ vocabulary'[i].last_add_date = now]_vars

\* the third submission of a word, after the clock has advanced
C10_Witness ==
    /\ ret.op = "save"
    /\ submitted[<<"u1", <<97>>>>] = 3
    /\ \E doc \in Docs : doc.add_count = 3 /\ doc.last_add_date = now /\ doc.created_at < now

ContentFields == {"definition", "examples", "source_passage", "source_question"}

\* C11: each stored content field of an item equals the most recent
\* non-empty value submitted for it (empty while none was submitted): a
\* re-submission replaces the fields it supplies and keeps the others, each
\* field on its own.
C11_ContentFields ==
    \A user_id \in Owners, word \in Words : \A i \in Items(user_id, word) :
        \A f \in ContentFields : vocabulary[i][f] = latest[<<user_id, word>>][f]

\* an item submitted three times: its definition was replaced by a second
\* value, its examples and question were supplied, its passage never was
C11_Witness ==
    \E i \in Pos :
        /\ vocabulary[i].add_count = 3
        /\ vocabulary[i].definition = "d2"
        /\ vocabulary[i].examples = <<"e1">>
        /\ vocabulary[i].source_passage = ""
        /\ vocabulary[i].source_question = "q1"

\* a comes before b in the lexicographic order of strings: they agree up
\* to a position where a has ended and b has not, or where a has the
\* smaller byte
LexLess(a, b) ==
    \E k \in 1..Len(b) :
        /\ \A j \in 1..(k - 1) : j <= Len(a) /\ a[j] = b[j]
        /\ k > Len(a) \/ (Len(a) >= k /\ a[k] < b[k])

\* C12: get_user_vocabulary returns every item of the owner exactly once
\* and no item of another owner, by add_count descending and, for equal
\* add_count, by word ascending.
C12_ListAll ==
    ret.op = "all" =>
        /\ \A doc \in DocsOf(ret.user_id) :
               Cardinality({k \in 1..Len(ret.val) : ret.val[k] = doc._id}) = 1
        /\ \A k \in 1..Len(ret.val) :
               \E doc \in DocsOf(ret.user_id) : doc._id = ret.val[k]
        /\ \A j, k \in 1..Len(ret.val) :
               j < k =>
                   LET a == DocIn(vocabulary, ret.val[j])
                       b == DocIn(vocabulary, ret.val[k])
                   IN  \/ a.add_count > b.add_count
                       \/ a.add_count = b.add_count /\ LexLess(a.word, b.word)

\* the notebook {(a, 3), (ab, 3), (b, 1)} stored in the order b, ab, a
\* beside a word of the other owner, listed as a, ab, b
C12_Witness ==
    /\ ret.op = "all" /\ ret.user_id = "u1" /\ Len(ret.val) = 3
    /\ Len(vocabulary) = 4
    /\ \E x, y, z \in Pos :
           /\ z < y /\ y < x
           /\ vocabulary[x].word = <<97>> /\ vocabulary[x].add_count = 3
           /\ vocabulary[y].word = <<97, 98>> /\ vocabulary[y].add_count = 3
           /\ vocabulary[z].word = <<98>> /\ vocabulary[z].add_count = 1
           /\ {vocabulary[x].user_id, vocabulary[y].user_id, vocabulary[z].user_id} = {"u1"}
           /\ ret.val = <<vocabulary[x]._id, vocabulary[y]._id, vocabulary[z]._id>>

\* C13: only a successful mark_word_reviewed changes the review state: in
\* every step that is not a successful review of the item (a submission
\* of its word again, a query, a review that finds nothing), its
\* review_count, last_review and next_review stay as they are.
C13_ReviewFrame ==
    [][\A i \in Pos :
           ~Reviews(vocabulary[i]._id) =>
               /\ vocabulary'[i].review_count = vocabulary[i].review_count
               /\ vocabulary'[i].last_review = vocabulary[i].last_review
               /\ vocabulary'[i].next_review = vocabulary[i].next_review]_vars

\* a reviewed item whose word was then submitted again
C13_Witness ==
    /\ ret.op = "save"
    /\ \E i \in Pos :
           /\ ret.val = <<vocabulary[i]._id>>
           /\ vocabulary[i].add_count = 2
           /\ vocabulary[i].review_count = 1
           /\ vocabulary[i].last_review # None
           /\ vocabulary[i].next_review # None

\* C14: when the operations run one after the other, the review_count of
\* an item never decreases from one state to the next; it is never
\* negative, and add_count is never below 1.
C14_Counts ==
    /\ [](\A doc \in Docs : doc.review_count >= 0 /\ doc.add_count >= 1)
    /\ [][\A i \in Pos :
              vocabulary'[i].review_count >= vocabulary[i].review_count]_vars

\* an item reviewed up to the last step of the table and submitted again
C14_Witness ==
    \E doc \in Docs : doc.review_count = 6 /\ doc.add_count >= 2

\* C15: the next_review of an item is null until its first successful
\* review; from then on it is a date, strictly later than last_review,
\* the time of the review that set it.
C15_NextReview ==
    \A doc \in Docs :
        /\ marked[doc._id] = 0 => doc.next_review = None
        /\ marked[doc._id] > 0 =>
               /\ doc.next_review # None
               /\ doc.last_review # None
               /\ doc.next_review > doc.last_review

\* an item reviewed once, the clock having advanced between the reading
\* next_review was computed from and the reading stored as last_review
C15_Witness ==
    \E doc \in Docs :
        /\ marked[doc._id] = 1
        /\ doc.next_review - doc.last_review < timedelta(1)

C17_Identity ==
    [][/\ \A i \in Pos :
              /\ vocabulary'[i]._id = vocabulary[i]._id
              /\ vocabulary'[i].user_id = vocabulary[i].user_id
              /\ vocabulary'[i].word = vocabulary[i].word
              /\ vocabulary'[i].created_at = vocabulary[i].created_at
       /\ \A i \in 1..Len(vocabulary') :
              Submits(vocabulary'[i].user_id, vocabulary'[i].word) =>
                  vocabulary'[i].last_add_date = now']_vars

\* an item submitted again and reviewed at times after its creation
C17_Witness ==
    \E doc \in Docs :
        /\ doc.add_count >= 2
        /\ doc.review_count >= 1
        /\ doc.created_at < doc.last_add_date
        /\ doc.created_at < doc.last_review

\* C18: no operation deletes an item: every item of the store is still
\* there after every step, with its _id, its owner and its word, so the
\* set of items of an owner only grows.
C18_NoDelete ==
    [][\A i \in Pos : \E j \in 1..Len(vocabulary') :
           /\ vocabulary'[j]._id = vocabulary[i]._id
           /\ vocabulary'[j].user_id = vocabulary[i].user_id
           /\ vocabulary'[j].word = vocabulary[i].word]_vars

\* the notebooks of two owners, three items in all, after a word was
\* submitted again and a word reviewed
C18_Witness ==
    /\ Len(vocabulary) = 3
    /\ Cardinality(DocsOf("u1")) = 2
    /\ Cardinality(DocsOf("u2")) = 1
    /\ \E doc \in Docs : doc.add_count = 2
    /\ \E doc \in Docs : doc.review_count = 1

\* C19: when two submissions of the same fresh pair run concurrently, their
\* find_one and their write being separate steps, the store ends with
\* exactly one item of that pair, and its add_count is 2.
C19_ConcurrentAdd ==
    \A user_id \in Owners, word \in Words :
        (/\ submitted[<<user_id, word>>] = 2
         /\ \A s \in Sessions : session[s] = Idle) =>
            /\ Cardinality(Items(user_id, word)) = 1
            /\ \A i \in Items(user_id, word) : vocabulary[i].add_count = 2

\* C20: when the reviews of one item by several sessions interleave, each
\* a find_one and, as a separate step, the update that stores the count
\* read plus one, the stored review_count never decreases from one state
\* to the next.
C20_ConcurrentReview ==
    [][\A id \in Ids :
           DocIn(vocabulary', id).review_count >= DocIn(vocabulary, id).review_count]_vars

\* C21: the score calculated for a learning session that was saved without
\* one is an integer from 0 to 100: 0 for the empty mapping, else the floor
\* of 10 times the average of what the entries contribute.
C21_Score ==
    (ret.op = "session" /\ ret.arg = <<>>) =>
        LET doc == DocIn(learning_sessions, ret.val[1])
        IN  /\ doc.score \in 0..100
            /\ doc.feedback = <<>> => doc.score = 0
            /\ doc.feedback # <<>> =>
                   doc.score = (10 * TotalScore(doc.feedback)) \div Len(doc.feedback)

\* C22: after any registrations, also when two of them interleave between
\* the check and the insert, no two user records have the same username
\* and no two the same email; and a registration whose username or email
\* is taken returns None and adds no user record.
C22_UniqueUsers ==
    /\ [](\A i, j \in 1..Len(users) :
              (users[i].username = users[j].username \/ users[i].email = users[j].email)
                  => i = j)
    /\ [][(ret'.op = "register" /\ UserTaken(ret'.arg[1], ret'.arg[2])) =>
              /\ users' = users
              /\ ret' = ret \/ ret'.val = <<>>]_vars

\* a registration that passed the check while another with the same
\* username was in progress, and was refused by the store
C22_Witness ==
    /\ ret.op = "register" /\ ret.val = <<>> /\ fault = "insert_one"
    /\ Len(users) = 1
    /\ users[1].username = ret.arg[1] /\ users[1].email # ret.arg[2]
    /\ \A s \in Sessions : session[s] = Idle

\* C23: a successful mark_word_reviewed changes nothing but the
\* review_count, last_review and next_review of the item it names: the
\* other fields of that item and every other item stay as they are.
C23_MarkFrame ==
    [][\A i \in Pos :
           Reviews(vocabulary[i]._id) =>
               /\ Len(vocabulary') = Len(vocabulary)
               /\ \A f \in DOMAIN vocabulary[i] \ {"review_count", "last_review", "next_review"} :
                      vocabulary'[i][f] = vocabulary[i][f]
               /\ DOMAIN vocabulary'[i] = DOMAIN vocabulary[i]
               /\ \A j \in Pos \ {i} : vocabulary'[j] = vocabulary[j]]_vars

\* of two items, one was reviewed at a time after it was submitted, the
\* other was not reviewed
C23_Witness ==
    /\ ret.op = "mark" /\ ret.val # <<>>
    /\ Len(vocabulary) = 2
    /\ \E i, j \in Pos :
           /\ vocabulary[i]._id = ret.val[1]
           /\ vocabulary[i].review_count = 1
           /\ vocabulary[i].last_review > vocabulary[i].last_add_date
           /\ vocabulary[j].review_count = 0

\* C24: owners are isolated: a call for one owner leaves every item of
\* another owner as it is, creates items of its own owner only and returns
\* items of its own owner only; so the items two owners hold for the same
\* word are two, and the counts and the review state of one do not follow
\* those of the other.
C24_Isolation ==
    [][/\ \A i \in Pos :
              vocabulary[i].user_id # ret'.user_id => vocabulary'[i] = vocabulary[i]
       /\ \A j \in 1..Len(vocabulary') :
              j > Len(vocabulary) => vocabulary'[j].user_id = ret'.user_id
       /\ \A k \in 1..Len(ret'.val) :
              DocIn(vocabulary', ret'.val[k]).user_id = ret'.user_id]_vars

\* two owners hold the same word: one submitted it twice and reviewed it,
\* the other submitted it once and asks for the due words, and gets its own
C24_Witness ==
    /\ ret.op = "due" /\ ret.user_id = "u2" /\ Len(ret.val) = 1
    /\ \E i, j \in Pos :
           /\ vocabulary[i].word = vocabulary[j].word
           /\ vocabulary[i].user_id = "u1" /\ vocabulary[j].user_id = "u2"
           /\ vocabulary[i].add_count = 2 /\ vocabulary[j].add_count = 1
           /\ vocabulary[i].review_count = 1 /\ vocabulary[j].review_count = 0
           /\ ret.val = <<vocabulary[j]._id>>
    /\ \E i \in Pos : vocabulary[i].user_id = "u1" /\ vocabulary[i].next_review = None

\* C25: the three review fields of every item agree in every state:
\* review_count is 0 exactly when last_review is null and exactly when
\* next_review is null, and it is 1 or more exactly when both are set.
C25_ReviewFields ==
    \A doc \in Docs :
        /\ (doc.review_count = 0) <=> (doc.last_review = None)
        /\ (doc.review_count = 0) <=> (doc.next_review = None)
        /\ (doc.review_count >= 1) <=> (doc.last_review # None /\ doc.next_review # None)

\* an item reviewed twice, while a review of it by another session, begun
\* before the first, has not yet written
C25_Witness ==
    /\ \E doc \in Docs :
           doc.review_count = 2 /\ doc.last_review # None /\ doc.next_review # None
    /\ \E s \in Sessions :
           session[s].pc = "mark" /\ session[s].vocab_item.review_count = 0

\* C26: also when the reviews of one item by several sessions interleave,
\* the stored review fields of a reviewed item are those of one call: with
\* the two clock readings of a call taken as one, next_review minus
\* last_review is the interval of the step table for the stored
\* review_count.
C26_OneCall ==
    \A doc \in Docs :
        doc.review_count >= 1 =>
            doc.next_review - doc.last_review = timedelta(TableDays(doc.review_count))

\* an item written by three reviews, the last of them begun before the
\* first had written: the stored fields are those of a first review, at
\* the time of the last write
C26_Witness ==
    \E doc \in Docs :
        /\ marked[doc._id] = 3
        /\ doc.review_count = 1
        /\ doc.last_review = now /\ now > 0
        /\ doc.next_review = now + timedelta(1)

\* C27: "Mark All Filtered Words as Reviewed" calls mark_word_reviewed once
\* for each item of the filtered list: when the run ends, each of these
\* items was reviewed once more and has a review_count one higher than
\* when the button was clicked, none of them is among the due words of
\* the owner at that time, and every other item is as it was.
C27_MarkAll ==
    [][(run.pc = "mark_all" /\ run'.pc = "idle") =>
           /\ Len(vocabulary') = Len(run.before)
           /\ \A i \in 1..Len(run.before) :
                  IF \E k \in 1..Len(run.filtered_words) :
                         run.filtered_words[k] = run.before[i]._id
                  THEN /\ vocabulary'[i].review_count = run.before[i].review_count + 1
                       /\ marked'[run.before[i]._id] = run.marked_before[run.before[i]._id] + 1
                       /\ ~(vocabulary'[i].next_review = None)
                       /\ ~(vocabulary'[i].next_review <= now')
                  ELSE vocabulary'[i] = run.before[i]]_vars

\* the run has just marked the two words of the owner, one reviewed before
\* and one not, while the clock went on between the two calls; the word
\* of the other owner is in the collection
C27_Witness ==
    /\ run.pc = "idle" /\ "updated_count" \in DOMAIN run /\ run.updated_count = 2
    /\ ret.op = "mark" /\ Len(vocabulary) = 3
    /\ \E i, j \in Pos :
           /\ vocabulary[i].user_id = "u1" /\ vocabulary[j].user_id = "u1"
           /\ vocabulary[i].review_count = 2 /\ vocabulary[j].review_count = 1
           /\ vocabulary[i].last_review # None /\ vocabulary[j].last_review # None
           /\ vocabulary[i].last_review < vocabulary[j].last_review
           /\ vocabulary[j].last_review = now

\* C28: in every state of a browser session that main, the login and the
\* registration form, the links between them and Logout lead to,
\* authenticated is true exactly when user is not None; a login or a
\* registration that fails leaves both as they were; Logout sets
\* authenticated to false and user to None.
C28_Authenticated ==
    [][/\ session_state'.authenticated <=> session_state'.user # <<>>
       /\ (ret'.op \in {"login", "register"} /\ ret'.val = <<>>) =>
              /\ session_state'.authenticated = session_state.authenticated
              /\ session_state'.user = session_state.user
       /\ ret'.op = "logout" =>
              ~session_state'.authenticated /\ session_state'.user = <<>>]_vars

\* a user has logged out, and the login with the user's name and another
\* password has failed: nobody is logged in
C28_Witness ==
    /\ ret.op = "login" /\ ret.val = <<>>
    /\ \E i \in 1..Len(users) :
           /\ ret.arg = <<users[i].username>>
           /\ \E k \in 1..Len(learning_sessions) :
                  learning_sessions[k].user_id = users[i]._id
    /\ ~session_state.authenticated /\ session_state.user = <<>>

\* C29: whenever there are questions, current_question_idx is at least 0
\* and less than their number, after Generate Questions, Previous
\* Question, Next Question, Reset and every other step of the pages; a
\* generation that succeeds and a reset set the index to 0 and leave no
\* answer and no feedback.
C29_QuestionIndex ==
    [][/\ session_state'.questions # <<>> =>
              /\ 0 <= session_state'.current_question_idx
              /\ session_state'.current_question_idx < Len(session_state'.questions)
       /\ (ret'.op = "reset" \/ (ret'.op = "generate" /\ ret'.val # <<>>)) =>
              /\ session_state'.current_question_idx = 0
              /\ DOMAIN session_state'.answers = {}
              /\ DOMAIN session_state'.feedback = {}]_vars

\* Next Question has led to the last of the questions, after an answer to
\* an earlier one
C29_Witness ==
    /\ ret.op = "next"
    /\ Len(session_state.questions) >= 2
    /\ session_state.current_question_idx = Len(session_state.questions) - 1
    /\ DOMAIN session_state.feedback # {}

====
